---- MODULE Spec2Model ----
(***************************************************************************)
(* Stateful reassembly of multi-message MIDI control values:               *)
(*   - Midi14BitControlChangeMessageParser (wide-value scanner),           *)
(*   - ParameterNumberMessageScanner ((N)RPN scanner),                     *)
(*   - ParameterNumberMessage::to_short_messages (encoder).                *)
(***************************************************************************)
EXTENDS Integers, Sequences, FiniteSets, TLC

VARIABLES
    parser_by_channel,   \* Midi14BitControlChangeMessageParser.parser_by_channel
    cc_log,              \* calls made on the wide-value scanner, with their results
    scanner_by_channel,  \* ParameterNumberMessageScanner.scanner_by_channel
    pn_log,              \* calls made on the parameter-number scanner, with their results
    rt_msg,              \* round trip: the ParameterNumberMessage constructed, if any
    rt_short_messages,   \* round trip: the result of to_short_messages, if computed
    rt_fed,              \* round trip: how many of the 4 slots have been gone through
    rt_rets,             \* round trip: what feed returned for each slot that holds a message
    rt_start,            \* round trip: the scanner's state when the message was encoded
    iso_which,           \* the component this behaviour drives: "cc", "pn" or "rt"
    solo_parser,         \* isolation: per channel, a wide-value scanner fed that channel only
    solo_scanner,        \* isolation: per channel, a parameter-number scanner fed that channel only
    iso_last             \* isolation: the last feed, what it returned here and alone

cc_vars == <<parser_by_channel, cc_log>>
pn_vars == <<scanner_by_channel, pn_log>>
rt_vars == <<rt_msg, rt_short_messages, rt_fed, rt_rets, rt_start>>
iso_vars == <<iso_which, solo_parser, solo_scanner, iso_last>>
vars == <<cc_vars, pn_vars, rt_vars, iso_vars>>

(***************************************************************************)
(* Option<T>: None is the empty tuple, Some(x) the one-element tuple.      *)
(***************************************************************************)
None == <<>>
Some(x) == <<x>>
IsSome(o) == o # <<>>
Unwrap(o) == o[1]

(***************************************************************************)
(* Bounds and input samples.                                               *)
(***************************************************************************)
\* Number of calls made on the wide-value scanner in one behaviour.
MaxFeedsCC == 3
\* Number of calls made on the parameter-number scanner in one behaviour.
MaxFeedsPN == 4

\* Channels the fed messages are drawn from.
ChannelSamples == {0, 5}
\* Channel the messages of the parameter-number call log are drawn from.
PNChannelSamples == {2}
\* 7-bit payloads the fed messages are drawn from.
U7Samples == {1, 127}
\* Controllers fed to the wide-value scanner: both ends of the MSB range 0..=31,
\* their partners at both ends of the LSB range 32..=63, and one outside.
CCControllerSamples == {0, 31, 32, 63, 64}
\* Controllers fed to the parameter-number scanner: its six protocol controllers and
\* one that is none of them.
PNControllerSamples == {6, 38, 98, 99, 100, 101, 34}

(***************************************************************************)
(* Short messages.                                                         *)
(***************************************************************************)
ChannelCount == 16
Channels == 0 .. (ChannelCount - 1)

control_change(channel, controller_number, control_value) ==
    [kind |-> "ControlChange", channel |-> Some(channel),
     data1 |-> controller_number, data2 |-> control_value]

note_on(channel, key_number, velocity) ==
    [kind |-> "NoteOn", channel |-> Some(channel),
     data1 |-> key_number, data2 |-> velocity]

\* A system real-time message: it has no channel.
timing_clock ==
    [kind |-> "TimingClock", channel |-> None, data1 |-> 0, data2 |-> 0]

build_14_bit_value_from_two_7_bit_values(high, low) == (high * 128) + low

get_corresponding_14_bit_lsb(controller_number) ==
    IF controller_number \in 0 .. 31 THEN Some(controller_number + 32) ELSE None

(***************************************************************************)
(* Every scanner operation yields the new state, the returned value and    *)
(* whether the call aborted (an unwrap of None).                           *)
(***************************************************************************)
Outcome(self, ret) == [self |-> self, ret |-> ret, panicked |-> FALSE]
Abort(self) == [self |-> self, ret |-> None, panicked |-> TRUE]

(***************************************************************************)
(* Midi14BitControlChangeMessage                                           *)
(***************************************************************************)
Midi14BitControlChangeMessage_new(channel, msb_controller_number, value) ==
    [channel |-> channel, msb_controller_number |-> msb_controller_number,
     value |-> value]

get_lsb_controller_number(m) ==
    Unwrap(get_corresponding_14_bit_lsb(m.msb_controller_number))

(***************************************************************************)
(* ParserForOneChannel                                                     *)
(***************************************************************************)
ParserForOneChannel_new == [msb_controller_number |-> None, value_msb |-> None]

\* A variant of reset that forgets the pending controller but keeps its value.
Mut_ParserForOneChannel_reset_keeps_value(self) ==
    [self EXCEPT !.msb_controller_number = None]

ParserForOneChannel_reset(self) ==
    [self EXCEPT !.msb_controller_number = None, !.value_msb = None]

\* A variant that keeps an MSB already pending (the first MSB would win).
Mut_process_value_msb_first_wins(self, msb_controller_number, value_msb) ==
    IF IsSome(self.msb_controller_number) THEN Outcome(self, None)
    ELSE Outcome([self EXCEPT !.msb_controller_number = Some(msb_controller_number),
                              !.value_msb = Some(value_msb)],
                 None)

ParserForOneChannel_process_value_msb(self, msb_controller_number, value_msb) ==
    Outcome([self EXCEPT !.msb_controller_number = Some(msb_controller_number),
                         !.value_msb = Some(value_msb)],
            None)

\* A variant that combines the two halves the wrong way round.
Mut_process_value_lsb_swapped(self, channel, lsb_controller_number, value_lsb) ==
    IF ~IsSome(self.msb_controller_number) \/ ~IsSome(self.value_msb)
    THEN Outcome(self, None)
    ELSE IF lsb_controller_number # Unwrap(self.msb_controller_number) + 32
    THEN Outcome(self, None)
    ELSE Outcome(self,
                 Some(Midi14BitControlChangeMessage_new(
                          channel, Unwrap(self.msb_controller_number),
                          build_14_bit_value_from_two_7_bit_values(
                              value_lsb, Unwrap(self.value_msb)))))

\* A variant that clears the pending state when it completes a sequence.
Mut_process_value_lsb_clearing(self, channel, lsb_controller_number, value_lsb) ==
    IF ~IsSome(self.msb_controller_number) \/ ~IsSome(self.value_msb)
    THEN Outcome(self, None)
    ELSE IF lsb_controller_number # Unwrap(self.msb_controller_number) + 32
    THEN Outcome(self, None)
    ELSE Outcome(ParserForOneChannel_reset(self),
                 Some(Midi14BitControlChangeMessage_new(
                          channel, Unwrap(self.msb_controller_number),
                          build_14_bit_value_from_two_7_bit_values(
                              Unwrap(self.value_msb), value_lsb))))

\* A variant in which a mismatched LSB cancels the pending MSB.
Mut_process_value_lsb_mismatch_cancels(self, channel, lsb_controller_number, value_lsb) ==
    IF ~IsSome(self.msb_controller_number) \/ ~IsSome(self.value_msb)
    THEN Outcome(self, None)
    ELSE IF lsb_controller_number # Unwrap(self.msb_controller_number) + 32
    THEN Outcome(ParserForOneChannel_reset(self), None)
    ELSE Outcome(self,
                 Some(Midi14BitControlChangeMessage_new(
                          channel, Unwrap(self.msb_controller_number),
                          build_14_bit_value_from_two_7_bit_values(
                              Unwrap(self.value_msb), value_lsb))))

\* A variant that asks the incoming LSB controller, not the pending MSB controller,
\* for its LSB partner.
Mut_process_value_lsb_pairs_the_lsb(self, channel, lsb_controller_number, value_lsb) ==
    IF ~IsSome(self.msb_controller_number) \/ ~IsSome(self.value_msb)
    THEN Outcome(self, None)
    ELSE LET expected == get_corresponding_14_bit_lsb(lsb_controller_number)
         IN  IF ~IsSome(expected) THEN Abort(self)
             ELSE IF Unwrap(self.msb_controller_number) # Unwrap(expected)
             THEN Outcome(self, None)
             ELSE Outcome(self,
                          Some(Midi14BitControlChangeMessage_new(
                                   channel, Unwrap(self.msb_controller_number),
                                   build_14_bit_value_from_two_7_bit_values(
                                       Unwrap(self.value_msb), value_lsb))))

\* A variant that completes on any LSB once an MSB is pending, without comparing the
\* controllers.
Mut_process_value_lsb_unchecked(self, channel, lsb_controller_number, value_lsb) ==
    IF ~IsSome(self.msb_controller_number) \/ ~IsSome(self.value_msb)
    THEN Outcome(self, None)
    ELSE Outcome(self,
                 Some(Midi14BitControlChangeMessage_new(
                          channel, Unwrap(self.msb_controller_number),
                          build_14_bit_value_from_two_7_bit_values(
                              Unwrap(self.value_msb), value_lsb))))

ParserForOneChannel_process_value_lsb(self, channel, lsb_controller_number, value_lsb) ==
    IF ~IsSome(self.msb_controller_number) THEN Outcome(self, None)
    ELSE IF ~IsSome(self.value_msb) THEN Outcome(self, None)
    ELSE LET msb_controller_number == Unwrap(self.msb_controller_number)
             value_msb == Unwrap(self.value_msb)
             expected == get_corresponding_14_bit_lsb(msb_controller_number)
         IN  IF ~IsSome(expected) THEN Abort(self)
             ELSE IF lsb_controller_number # Unwrap(expected) THEN Outcome(self, None)
             ELSE LET value == build_14_bit_value_from_two_7_bit_values(value_msb, value_lsb)
                  IN  Outcome(self,
                              Some(Midi14BitControlChangeMessage_new(
                                       channel, msb_controller_number, value)))

ParserForOneChannel_feed(self, msg) ==
    IF msg.kind = "ControlChange"
    THEN IF msg.data1 \in 0 .. 31
         THEN ParserForOneChannel_process_value_msb(self, msg.data1, msg.data2)
         ELSE IF msg.data1 \in 32 .. 63
         THEN ParserForOneChannel_process_value_lsb(
                  self, Unwrap(msg.channel), msg.data1, msg.data2)
         ELSE Outcome(self, None)
    ELSE Outcome(self, None)

(***************************************************************************)
(* Midi14BitControlChangeMessageParser                                     *)
(***************************************************************************)
Parser_new == [c \in Channels |-> ParserForOneChannel_new]

Parser_feed(self, msg) ==
    IF ~IsSome(msg.channel) THEN Outcome(self, None)
    ELSE LET channel == Unwrap(msg.channel)
             r == ParserForOneChannel_feed(self[channel], msg)
         IN  [self |-> [self EXCEPT ![channel] = r.self],
              ret |-> r.ret, panicked |-> r.panicked]

Parser_reset(self) == [c \in Channels |-> ParserForOneChannel_reset(self[c])]

(***************************************************************************)
(* ParameterNumberMessage                                                  *)
(***************************************************************************)
seven_bit(channel, number, value, is_registered) ==
    [channel |-> channel, number |-> number, value |-> value,
     is_registered |-> is_registered, is_14_bit |-> FALSE]

\* A variant that flags the message it builds as 7-bit.
Mut_fourteen_bit_flagged_7_bit(channel, number, value, is_registered) ==
    [channel |-> channel, number |-> number, value |-> value,
     is_registered |-> is_registered, is_14_bit |-> FALSE]

fourteen_bit(channel, number, value, is_registered) ==
    [channel |-> channel, number |-> number, value |-> value,
     is_registered |-> is_registered, is_14_bit |-> TRUE]

non_registered_7_bit(channel, number, value) == seven_bit(channel, number, value, FALSE)
non_registered_14_bit(channel, number, value) == fourteen_bit(channel, number, value, FALSE)
registered_7_bit(channel, number, value) == seven_bit(channel, number, value, TRUE)
registered_14_bit(channel, number, value) == fourteen_bit(channel, number, value, TRUE)

(***************************************************************************)
(* ScannerForOneChannel                                                    *)
(***************************************************************************)
ScannerForOneChannel_default ==
    [number_msb |-> None, number_lsb |-> None, is_registered |-> FALSE,
     value_lsb |-> None]

\* A variant of reset_value that leaves the value LSB in place.
Mut_ScannerForOneChannel_reset_value_keeps(self) == self

ScannerForOneChannel_reset_value(self) == [self EXCEPT !.value_lsb = None]

\* A variant that discards the value progress only and keeps the number.
Mut_ScannerForOneChannel_reset_keeps_number(self) ==
    ScannerForOneChannel_reset_value(self)

ScannerForOneChannel_reset(self) ==
    ScannerForOneChannel_reset_value(
        [self EXCEPT !.number_msb = None, !.number_lsb = None, !.is_registered = FALSE])

\* A variant that stores the number LSB without discarding the value progress.
Mut_process_number_lsb_keeps_value(self, number_lsb, is_registered) ==
    Outcome([self EXCEPT !.number_lsb = Some(number_lsb),
                         !.is_registered = is_registered],
            None)

ScannerForOneChannel_process_number_lsb(self, number_lsb, is_registered) ==
    Outcome([ScannerForOneChannel_reset_value(self)
                 EXCEPT !.number_lsb = Some(number_lsb),
                        !.is_registered = is_registered],
            None)

\* A variant in which a registered number half, once stored, keeps the channel
\* registered.
Mut_process_number_msb_sticky_kind(self, number_msb, is_registered) ==
    Outcome([ScannerForOneChannel_reset_value(self)
                 EXCEPT !.number_msb = Some(number_msb),
                        !.is_registered = self.is_registered \/ is_registered],
            None)

ScannerForOneChannel_process_number_msb(self, number_msb, is_registered) ==
    Outcome([ScannerForOneChannel_reset_value(self)
                 EXCEPT !.number_msb = Some(number_msb),
                        !.is_registered = is_registered],
            None)

ScannerForOneChannel_process_value_lsb(self, value_lsb) ==
    Outcome([self EXCEPT !.value_lsb = Some(value_lsb)], None)

\* A variant that combines the two value halves the wrong way round.
Mut_process_value_msb_swapped(self, channel, value_msb) ==
    IF ~IsSome(self.number_lsb) \/ ~IsSome(self.number_msb) THEN Outcome(self, None)
    ELSE LET number == build_14_bit_value_from_two_7_bit_values(
                           Unwrap(self.number_msb), Unwrap(self.number_lsb))
         IN  Outcome(self,
                 Some(IF IsSome(self.value_lsb)
                      THEN fourteen_bit(channel, number,
                               build_14_bit_value_from_two_7_bit_values(
                                   Unwrap(self.value_lsb), value_msb),
                               self.is_registered)
                      ELSE seven_bit(channel, number, value_msb, self.is_registered)))

\* A variant whose 7-bit branches build the message of the other kind.
Mut_process_value_msb_7_bit_kind_flipped(self, channel, value_msb) ==
    IF ~IsSome(self.number_lsb) \/ ~IsSome(self.number_msb) THEN Outcome(self, None)
    ELSE LET number == build_14_bit_value_from_two_7_bit_values(
                           Unwrap(self.number_msb), Unwrap(self.number_lsb))
         IN  Outcome(self,
                 Some(IF IsSome(self.value_lsb)
                      THEN fourteen_bit(channel, number,
                               build_14_bit_value_from_two_7_bit_values(
                                   value_msb, Unwrap(self.value_lsb)),
                               self.is_registered)
                      ELSE seven_bit(channel, number, value_msb, ~self.is_registered)))

\* A variant that reads a missing number MSB as zero.
Mut_process_value_msb_missing_msb_is_zero(self, channel, value_msb) ==
    IF ~IsSome(self.number_lsb) THEN Outcome(self, None)
    ELSE LET number == build_14_bit_value_from_two_7_bit_values(
                           IF IsSome(self.number_msb) THEN Unwrap(self.number_msb) ELSE 0,
                           Unwrap(self.number_lsb))
         IN  Outcome(self,
                 Some(IF IsSome(self.value_lsb)
                      THEN fourteen_bit(channel, number,
                               build_14_bit_value_from_two_7_bit_values(
                                   value_msb, Unwrap(self.value_lsb)),
                               self.is_registered)
                      ELSE seven_bit(channel, number, value_msb, self.is_registered)))

\* A variant that forgets the number once it has returned a message.
Mut_process_value_msb_consumes_number(self, channel, value_msb) ==
    IF ~IsSome(self.number_lsb) \/ ~IsSome(self.number_msb) THEN Outcome(self, None)
    ELSE LET number == build_14_bit_value_from_two_7_bit_values(
                           Unwrap(self.number_msb), Unwrap(self.number_lsb))
         IN  Outcome(ScannerForOneChannel_reset(self),
                 Some(IF IsSome(self.value_lsb)
                      THEN fourteen_bit(channel, number,
                               build_14_bit_value_from_two_7_bit_values(
                                   value_msb, Unwrap(self.value_lsb)),
                               self.is_registered)
                      ELSE seven_bit(channel, number, value_msb, self.is_registered)))

\* A variant that discards the value LSB once it has gone into a message.
Mut_process_value_msb_consumes_value_lsb(self, channel, value_msb) ==
    IF ~IsSome(self.number_lsb) \/ ~IsSome(self.number_msb) THEN Outcome(self, None)
    ELSE LET number == build_14_bit_value_from_two_7_bit_values(
                           Unwrap(self.number_msb), Unwrap(self.number_lsb))
         IN  Outcome(ScannerForOneChannel_reset_value(self),
                 Some(IF IsSome(self.value_lsb)
                      THEN fourteen_bit(channel, number,
                               build_14_bit_value_from_two_7_bit_values(
                                   value_msb, Unwrap(self.value_lsb)),
                               self.is_registered)
                      ELSE seven_bit(channel, number, value_msb, self.is_registered)))

ScannerForOneChannel_process_value_msb(self, channel, value_msb) ==
    IF ~IsSome(self.number_lsb) THEN Outcome(self, None)
    ELSE IF ~IsSome(self.number_msb) THEN Outcome(self, None)
    ELSE LET number_lsb == Unwrap(self.number_lsb)
             number_msb == Unwrap(self.number_msb)
             number == build_14_bit_value_from_two_7_bit_values(number_msb, number_lsb)
             msg == IF self.is_registered
                    THEN IF IsSome(self.value_lsb)
                         THEN registered_14_bit(
                                  channel, number,
                                  build_14_bit_value_from_two_7_bit_values(
                                      value_msb, Unwrap(self.value_lsb)))
                         ELSE registered_7_bit(channel, number, value_msb)
                    ELSE IF IsSome(self.value_lsb)
                         THEN non_registered_14_bit(
                                  channel, number,
                                  build_14_bit_value_from_two_7_bit_values(
                                      value_msb, Unwrap(self.value_lsb)))
                         ELSE non_registered_7_bit(channel, number, value_msb)
         IN  Outcome(self, Some(msg))

\* A variant whose catch-all arm discards the value progress.
Mut_ScannerForOneChannel_feed_other_resets_value(self, msg) ==
    IF msg.kind = "ControlChange"
    THEN CASE msg.data1 = 98 ->
                  ScannerForOneChannel_process_number_lsb(self, msg.data2, FALSE)
           [] msg.data1 = 99 ->
                  ScannerForOneChannel_process_number_msb(self, msg.data2, FALSE)
           [] msg.data1 = 100 ->
                  ScannerForOneChannel_process_number_lsb(self, msg.data2, TRUE)
           [] msg.data1 = 101 ->
                  ScannerForOneChannel_process_number_msb(self, msg.data2, TRUE)
           [] msg.data1 = 38 ->
                  ScannerForOneChannel_process_value_lsb(self, msg.data2)
           [] msg.data1 = 6 ->
                  ScannerForOneChannel_process_value_msb(
                      self, Unwrap(msg.channel), msg.data2)
           [] OTHER -> Outcome(ScannerForOneChannel_reset_value(self), None)
    ELSE Outcome(self, None)

\* A variant whose dispatch takes 98/99 for the registered pair and 100/101 for the
\* non-registered one.
Mut_ScannerForOneChannel_feed_pairs_swapped(self, msg) ==
    IF msg.kind = "ControlChange"
    THEN CASE msg.data1 = 98 ->
                  ScannerForOneChannel_process_number_lsb(self, msg.data2, TRUE)
           [] msg.data1 = 99 ->
                  ScannerForOneChannel_process_number_msb(self, msg.data2, TRUE)
           [] msg.data1 = 100 ->
                  ScannerForOneChannel_process_number_lsb(self, msg.data2, FALSE)
           [] msg.data1 = 101 ->
                  ScannerForOneChannel_process_number_msb(self, msg.data2, FALSE)
           [] msg.data1 = 38 ->
                  ScannerForOneChannel_process_value_lsb(self, msg.data2)
           [] msg.data1 = 6 ->
                  ScannerForOneChannel_process_value_msb(
                      self, Unwrap(msg.channel), msg.data2)
           [] OTHER -> Outcome(self, None)
    ELSE Outcome(self, None)

ScannerForOneChannel_feed(self, msg) ==
    IF msg.kind = "ControlChange"
    THEN CASE msg.data1 = 98 ->
                  ScannerForOneChannel_process_number_lsb(self, msg.data2, FALSE)
           [] msg.data1 = 99 ->
                  ScannerForOneChannel_process_number_msb(self, msg.data2, FALSE)
           [] msg.data1 = 100 ->
                  ScannerForOneChannel_process_number_lsb(self, msg.data2, TRUE)
           [] msg.data1 = 101 ->
                  ScannerForOneChannel_process_number_msb(self, msg.data2, TRUE)
           [] msg.data1 = 38 ->
                  ScannerForOneChannel_process_value_lsb(self, msg.data2)
           [] msg.data1 = 6 ->
                  ScannerForOneChannel_process_value_msb(
                      self, Unwrap(msg.channel), msg.data2)
           [] OTHER -> Outcome(self, None)
    ELSE Outcome(self, None)

(***************************************************************************)
(* ParameterNumberMessageScanner                                           *)
(***************************************************************************)
Scanner_new == [c \in Channels |-> ScannerForOneChannel_default]

\* A variant whose number-half and value-LSB messages land in every channel's state.
Mut_Scanner_feed_lands_in_every_channel(self, msg) ==
    IF ~IsSome(msg.channel) THEN Outcome(self, None)
    ELSE LET channel == Unwrap(msg.channel)
             r == ScannerForOneChannel_feed(self[channel], msg)
         IN  [self |-> [c \in Channels |-> ScannerForOneChannel_feed(self[c], msg).self],
              ret |-> r.ret, panicked |-> r.panicked]

Scanner_feed(self, msg) ==
    IF ~IsSome(msg.channel) THEN Outcome(self, None)
    ELSE LET channel == Unwrap(msg.channel)
             r == ScannerForOneChannel_feed(self[channel], msg)
         IN  [self |-> [self EXCEPT ![channel] = r.self],
              ret |-> r.ret, panicked |-> r.panicked]

Scanner_reset(self) == [c \in Channels |-> ScannerForOneChannel_reset(self[c])]

(***************************************************************************)
(* ParameterNumberMessage::to_short_messages                               *)
(***************************************************************************)
\* controller_numbers::*, with the values the encoder's tests show on the wire.
REGISTERED_PARAMETER_NUMBER_MSB == 101
REGISTERED_PARAMETER_NUMBER_LSB == 100
NON_REGISTERED_PARAMETER_NUMBER_MSB == 99
NON_REGISTERED_PARAMETER_NUMBER_LSB == 98
DATA_ENTRY_MSB_LSB == 38
DATA_ENTRY_MSB == 6

extract_high_7_bit_value_from_14_bit_value(value) == value \div 128
extract_low_7_bit_value_from_14_bit_value(value) == value % 128

\* `self.value.get() as u8`: the u16 is truncated to its low 8 bits.
as_u8(value) == value % 256

\* A variant that moves to the 4th slot whether or not it wrote the value LSB.
Mut_to_short_messages_slot_skipped(self) ==
    LET number_msb ==
            control_change(self.channel,
                IF self.is_registered THEN REGISTERED_PARAMETER_NUMBER_MSB
                                      ELSE NON_REGISTERED_PARAMETER_NUMBER_MSB,
                extract_high_7_bit_value_from_14_bit_value(self.number))
        number_lsb ==
            control_change(self.channel,
                IF self.is_registered THEN REGISTERED_PARAMETER_NUMBER_LSB
                                      ELSE NON_REGISTERED_PARAMETER_NUMBER_LSB,
                extract_low_7_bit_value_from_14_bit_value(self.number))
    IN  IF self.is_14_bit
        THEN (0 :> Some(number_msb)) @@ (1 :> Some(number_lsb))
             @@ (2 :> Some(control_change(self.channel, DATA_ENTRY_MSB_LSB,
                              extract_low_7_bit_value_from_14_bit_value(self.value))))
             @@ (3 :> Some(control_change(self.channel, DATA_ENTRY_MSB,
                              extract_high_7_bit_value_from_14_bit_value(self.value))))
        ELSE (0 :> Some(number_msb)) @@ (1 :> Some(number_lsb)) @@ (2 :> None)
             @@ (3 :> Some(control_change(self.channel, DATA_ENTRY_MSB,
                              as_u8(self.value))))

\* A variant that emits the value MSB before the value LSB.
Mut_to_short_messages_value_msb_first(self) ==
    LET number_msb ==
            control_change(self.channel,
                IF self.is_registered THEN REGISTERED_PARAMETER_NUMBER_MSB
                                      ELSE NON_REGISTERED_PARAMETER_NUMBER_MSB,
                extract_high_7_bit_value_from_14_bit_value(self.number))
        number_lsb ==
            control_change(self.channel,
                IF self.is_registered THEN REGISTERED_PARAMETER_NUMBER_LSB
                                      ELSE NON_REGISTERED_PARAMETER_NUMBER_LSB,
                extract_low_7_bit_value_from_14_bit_value(self.number))
    IN  IF self.is_14_bit
        THEN (0 :> Some(number_msb)) @@ (1 :> Some(number_lsb))
             @@ (2 :> Some(control_change(self.channel, DATA_ENTRY_MSB,
                              extract_high_7_bit_value_from_14_bit_value(self.value))))
             @@ (3 :> Some(control_change(self.channel, DATA_ENTRY_MSB_LSB,
                              extract_low_7_bit_value_from_14_bit_value(self.value))))
        ELSE (0 :> Some(number_msb)) @@ (1 :> Some(number_lsb))
             @@ (2 :> Some(control_change(self.channel, DATA_ENTRY_MSB,
                              as_u8(self.value))))
             @@ (3 :> None)

\* The array `messages` is indexed 0..3 as in the source; i is the write position.
to_short_messages(self) ==
    LET messages0 == [k \in 0 .. 3 |-> None]
        i0 == 0
        \* Number MSB
        messages1 ==
            [messages0 EXCEPT ![i0] =
                Some(control_change(self.channel,
                         IF self.is_registered THEN REGISTERED_PARAMETER_NUMBER_MSB
                                               ELSE NON_REGISTERED_PARAMETER_NUMBER_MSB,
                         extract_high_7_bit_value_from_14_bit_value(self.number)))]
        i1 == i0 + 1
        \* Number LSB
        messages2 ==
            [messages1 EXCEPT ![i1] =
                Some(control_change(self.channel,
                         IF self.is_registered THEN REGISTERED_PARAMETER_NUMBER_LSB
                                               ELSE NON_REGISTERED_PARAMETER_NUMBER_LSB,
                         extract_low_7_bit_value_from_14_bit_value(self.number)))]
        i2 == i1 + 1
        \* Value LSB
        messages3 ==
            IF self.is_14_bit
            THEN [messages2 EXCEPT ![i2] =
                     Some(control_change(self.channel, DATA_ENTRY_MSB_LSB,
                              extract_low_7_bit_value_from_14_bit_value(self.value)))]
            ELSE messages2
        i3 == IF self.is_14_bit THEN i2 + 1 ELSE i2
        \* Value MSB
        messages4 ==
            [messages3 EXCEPT ![i3] =
                Some(control_change(self.channel, DATA_ENTRY_MSB,
                         IF self.is_14_bit
                         THEN extract_high_7_bit_value_from_14_bit_value(self.value)
                         ELSE as_u8(self.value)))]
    IN  messages4

(***************************************************************************)
(* Initial states: both scanners newly created, nothing constructed yet.   *)
(***************************************************************************)
InitCC ==
    /\ parser_by_channel = Parser_new
    /\ cc_log = <<>>

InitPN ==
    /\ scanner_by_channel = Scanner_new
    /\ pn_log = <<>>

InitRT ==
    /\ rt_msg = None
    /\ rt_short_messages = None
    /\ rt_fed = 0
    /\ rt_rets = <<>>
    /\ rt_start = None

\* Every channel's own scanner, fed that channel's messages only, is new as well.
InitSolo ==
    /\ solo_parser = [c \in ChannelSamples |-> Parser_new]
    /\ solo_scanner = [c \in ChannelSamples |-> Scanner_new]
    /\ iso_last = None

Init == InitCC /\ InitPN /\ InitRT /\ InitSolo /\ iso_which = "cc"

\* The isolation run drives either scanner.
InitIso == InitCC /\ InitPN /\ InitRT /\ InitSolo /\ iso_which \in {"cc", "pn"}

(***************************************************************************)
(* Inputs of the wide-value scanner.                                       *)
(***************************************************************************)
CCMessages ==
    {control_change(c, n, v) : c \in ChannelSamples, n \in CCControllerSamples,
                               v \in U7Samples}
    \cup {note_on(c, 100, 100) : c \in ChannelSamples}
    \cup {timing_clock}

FeedEntry(msg, pre, r) ==
    [op |-> "feed", msg |-> msg, pre |-> pre, ret |-> r.ret, panicked |-> r.panicked]
ResetEntry(pre) ==
    [op |-> "reset", msg |-> timing_clock, pre |-> pre, ret |-> None, panicked |-> FALSE]

(***************************************************************************)
(* Wide-value scanner: state machine.                                      *)
(***************************************************************************)
CCFeed ==
    \E msg \in CCMessages :
        /\ Len(cc_log) < MaxFeedsCC
        /\ LET r == Parser_feed(parser_by_channel, msg)
           IN  /\ parser_by_channel' = r.self
               /\ cc_log' = Append(cc_log, FeedEntry(msg, parser_by_channel, r))
        /\ UNCHANGED <<pn_vars, rt_vars, iso_vars>>

CCReset ==
    /\ Len(cc_log) < MaxFeedsCC
    /\ parser_by_channel' = Parser_reset(parser_by_channel)
    /\ cc_log' = Append(cc_log, ResetEntry(parser_by_channel))
    /\ UNCHANGED <<pn_vars, rt_vars, iso_vars>>

NextCC == CCFeed \/ CCReset

SpecCC == Init /\ [][NextCC]_vars

(***************************************************************************)
(* Parameter-number scanner: state machine.                                *)
(***************************************************************************)
PNMessages ==
    {control_change(c, n, v) : c \in PNChannelSamples, n \in PNControllerSamples,
                               v \in U7Samples}
    \cup {note_on(c, 100, 100) : c \in PNChannelSamples}
    \cup {timing_clock}

PNFeed ==
    \E msg \in PNMessages :
        /\ Len(pn_log) < MaxFeedsPN
        /\ LET r == Scanner_feed(scanner_by_channel, msg)
           IN  /\ scanner_by_channel' = r.self
               /\ pn_log' = Append(pn_log, FeedEntry(msg, scanner_by_channel, r))
        /\ UNCHANGED <<cc_vars, rt_vars, iso_vars>>

PNReset ==
    /\ Len(pn_log) < MaxFeedsPN
    /\ scanner_by_channel' = Scanner_reset(scanner_by_channel)
    /\ pn_log' = Append(pn_log, ResetEntry(scanner_by_channel))
    /\ UNCHANGED <<cc_vars, rt_vars, iso_vars>>

NextPN == PNFeed \/ PNReset

SpecPN == Init /\ [][NextPN]_vars

(***************************************************************************)
(* Parameter-number scanner over a run of any length: the log keeps the    *)
(* last PNWindow calls only, so the calls it shows start from whatever     *)
(* state the earlier calls left.                                           *)
(***************************************************************************)
PNWindow == 3

\* The number payloads are those of the tests (99:3 98:37, 101:3 100:36).
PNWinMessages ==
    {control_change(c, n, v) : c \in PNChannelSamples, n \in {6, 38}, v \in U7Samples}
    \cup {control_change(c, 99, 3) : c \in PNChannelSamples}
    \cup {control_change(c, 98, 37) : c \in PNChannelSamples}
    \cup {control_change(c, 101, 3) : c \in PNChannelSamples}
    \cup {control_change(c, 100, 36) : c \in PNChannelSamples}
    \cup {timing_clock}

\* The log with its oldest call dropped once it is full, and the new call appended.
PNWinPush(log, e) == Append(IF Len(log) < PNWindow THEN log ELSE Tail(log), e)

PNWinFeed ==
    \E msg \in PNWinMessages :
        /\ LET r == Scanner_feed(scanner_by_channel, msg)
           IN  /\ scanner_by_channel' = r.self
               /\ pn_log' = PNWinPush(pn_log, FeedEntry(msg, scanner_by_channel, r))
        /\ UNCHANGED <<cc_vars, rt_vars, iso_vars>>

PNWinReset ==
    /\ scanner_by_channel' = Scanner_reset(scanner_by_channel)
    /\ pn_log' = PNWinPush(pn_log, ResetEntry(scanner_by_channel))
    /\ UNCHANGED <<cc_vars, rt_vars, iso_vars>>

NextPNWin == PNWinFeed \/ PNWinReset

SpecPNWin == Init /\ [][NextPNWin]_vars

(***************************************************************************)
(* Round trip: construct a message, encode it, feed the slots in order.    *)
(***************************************************************************)
\* 14-bit numbers and values the constructed messages are drawn from.
U14Samples == {0, 127, 128, 420, 15000, 16383}
\* 7-bit values the constructed 7-bit messages are drawn from.
RTU7Samples == {0, 1, 126, 127}
\* Integers a caller may try to make a U7 of: the samples and one that is no U7.
RTU7Inputs == RTU7Samples \cup {255}

\* test_util::u7 / U7::new: the U7 of an integer; it panics (None here) above 127.
u7(value) == IF value \in 0 .. 127 THEN Some(value) ELSE None

RTConstruct ==
    /\ rt_msg = None
    /\ \E channel \in ChannelSamples : \E number \in U14Samples :
           \/ \E value \in RTU7Inputs :
                  /\ IsSome(u7(value))
                  /\ rt_msg' = Some(non_registered_7_bit(channel, number, Unwrap(u7(value))))
           \/ \E value \in U14Samples :
                  rt_msg' = Some(non_registered_14_bit(channel, number, value))
           \/ \E value \in RTU7Inputs :
                  /\ IsSome(u7(value))
                  /\ rt_msg' = Some(registered_7_bit(channel, number, Unwrap(u7(value))))
           \/ \E value \in U14Samples :
                  rt_msg' = Some(registered_14_bit(channel, number, value))
    /\ UNCHANGED <<rt_short_messages, rt_fed, rt_rets, rt_start>>
    /\ UNCHANGED <<cc_vars, pn_log, scanner_by_channel, iso_vars>>

RTEncode ==
    /\ IsSome(rt_msg)
    /\ rt_short_messages = None
    /\ rt_short_messages' = Some(to_short_messages(Unwrap(rt_msg)))
    /\ rt_start' = Some(scanner_by_channel)
    /\ UNCHANGED <<rt_msg, rt_fed, rt_rets>>
    /\ UNCHANGED <<cc_vars, pn_log, scanner_by_channel, iso_vars>>

\* Go through the next slot: feed the message it holds, pass over an empty slot.
RTFeedNext ==
    /\ IsSome(rt_short_messages)
    /\ rt_fed < 4
    /\ LET slot == Unwrap(rt_short_messages)[rt_fed]
       IN  IF IsSome(slot)
           THEN LET r == Scanner_feed(scanner_by_channel, Unwrap(slot))
                IN  /\ scanner_by_channel' = r.self
                    /\ rt_rets' = Append(rt_rets, r.ret)
           ELSE UNCHANGED <<scanner_by_channel, rt_rets>>
    /\ rt_fed' = rt_fed + 1
    /\ UNCHANGED <<rt_msg, rt_short_messages, rt_start>>
    /\ UNCHANGED <<cc_vars, pn_log, iso_vars>>

NextRT == RTConstruct \/ RTEncode \/ RTFeedNext

SpecRT == Init /\ [][NextRT]_vars

(***************************************************************************)
(* Round trip into a scanner that has been in use: before the message is   *)
(* constructed the scanner is fed and reset at will; while the encoder's   *)
(* output is fed, messages for other channels arrive in between.           *)
(***************************************************************************)
\* The channel whose earlier traffic the round trip meets.
RTUsedChannels == {5}

RTEarlierMessages ==
    {control_change(c, n, v) : c \in RTUsedChannels, n \in PNControllerSamples,
                               v \in U7Samples}
    \cup {timing_clock}

\* What may arrive between two messages of the encoder's output.
RTBetweenMessages ==
    {control_change(c, n, 1) : c \in ChannelSamples, n \in {6, 38, 100, 101}}
    \cup {timing_clock}

RTEarlierFeed ==
    /\ rt_msg = None
    /\ \E msg \in RTEarlierMessages :
           scanner_by_channel' = Scanner_feed(scanner_by_channel, msg).self
    /\ UNCHANGED <<cc_vars, pn_log, rt_vars, iso_vars>>

RTEarlierReset ==
    /\ rt_msg = None
    /\ scanner_by_channel' = Scanner_reset(scanner_by_channel)
    /\ UNCHANGED <<cc_vars, pn_log, rt_vars, iso_vars>>

\* A message that is not on the round trip's channel, fed between two slots.
RTBetweenFeed ==
    /\ IsSome(rt_short_messages)
    /\ rt_fed < 4
    /\ \E msg \in RTBetweenMessages :
           /\ msg.channel # Some(Unwrap(rt_msg).channel)
           /\ scanner_by_channel' = Scanner_feed(scanner_by_channel, msg).self
    /\ UNCHANGED <<cc_vars, pn_log, rt_vars, iso_vars>>

NextRTUsed ==
    \/ RTEarlierFeed
    \/ RTEarlierReset
    \/ RTConstruct
    \/ RTEncode
    \/ RTFeedNext
    \/ RTBetweenFeed

SpecRTUsed == Init /\ [][NextRTUsed]_vars

(***************************************************************************)
(* Channel isolation: one scanner is fed messages interleaved across the   *)
(* channels while, for every channel, a scanner of its own is fed only the *)
(* messages of that channel. The two scanner types share no state, so a    *)
(* behaviour drives one of them, chosen in the initial state.              *)
(***************************************************************************)
PNIsoMessages ==
    {control_change(c, n, v) : c \in ChannelSamples, n \in PNControllerSamples,
                               v \in U7Samples}
    \cup {note_on(c, 100, 100) : c \in ChannelSamples}
    \cup {timing_clock}

\* The last feed: its argument, the fed scanner's state before it, what it returned,
\* and what it returned in the scanner that is fed its channel's messages only (a
\* message without a channel belongs to no channel's sequence: nothing).
IsoLast(msg, pre, ret, solo_ret) ==
    Some([msg |-> msg, pre |-> pre, ret |-> ret, solo_ret |-> solo_ret])

IsoFeedCC ==
    /\ iso_which = "cc"
    /\ \E msg \in CCMessages :
           LET r == Parser_feed(parser_by_channel, msg)
           IN  /\ parser_by_channel' = r.self
               /\ IF IsSome(msg.channel)
                  THEN LET c == Unwrap(msg.channel)
                           solo == Parser_feed(solo_parser[c], msg)
                       IN  /\ solo_parser' = [solo_parser EXCEPT ![c] = solo.self]
                           /\ iso_last' = IsoLast(msg, parser_by_channel, r.ret, solo.ret)
                  ELSE /\ solo_parser' = solo_parser
                       /\ iso_last' = IsoLast(msg, parser_by_channel, r.ret, None)
    /\ UNCHANGED <<cc_log, pn_vars, rt_vars, iso_which, solo_scanner>>

IsoFeedPN ==
    /\ iso_which = "pn"
    /\ \E msg \in PNIsoMessages :
           LET r == Scanner_feed(scanner_by_channel, msg)
           IN  /\ scanner_by_channel' = r.self
               /\ IF IsSome(msg.channel)
                  THEN LET c == Unwrap(msg.channel)
                           solo == Scanner_feed(solo_scanner[c], msg)
                       IN  /\ solo_scanner' = [solo_scanner EXCEPT ![c] = solo.self]
                           /\ iso_last' = IsoLast(msg, scanner_by_channel, r.ret, solo.ret)
                  ELSE /\ solo_scanner' = solo_scanner
                       /\ iso_last' = IsoLast(msg, scanner_by_channel, r.ret, None)
    /\ UNCHANGED <<pn_log, cc_vars, rt_vars, iso_which, solo_parser>>

NextIso == IsoFeedCC \/ IsoFeedPN

SpecIso == InitIso /\ [][NextIso]_vars

(***************************************************************************)
(* Every component on its own: the two scanners and the encoder share no   *)
(* state, so a behaviour drives one of them, chosen in the initial state:  *)
(* the wide-value scanner, the parameter-number scanner, or the encoder    *)
(* with the scanner it feeds.                                              *)
(***************************************************************************)
InitAll == InitCC /\ InitPN /\ InitRT /\ InitSolo /\ iso_which \in {"cc", "pn", "rt"}

NextAll ==
    \/ iso_which = "cc" /\ NextCC
    \/ iso_which = "pn" /\ NextPN
    \/ iso_which = "rt" /\ NextRT

SpecAll == InitAll /\ [][NextAll]_vars

(***************************************************************************)
(* Reading the log of the wide-value scanner.                              *)
(***************************************************************************)
CCIdx == 1 .. Len(cc_log)

\* The scanner's state right after the i-th logged call.
CCStateAfter(i) == IF i = Len(cc_log) THEN parser_by_channel ELSE cc_log[i + 1].pre

IsCCOn(e, c) ==
    e.op = "feed" /\ e.msg.kind = "ControlChange" /\ e.msg.channel = Some(c)
IsMsbOn(e, c) == IsCCOn(e, c) /\ e.msg.data1 \in 0 .. 31
IsLsbOn(e, c) == IsCCOn(e, c) /\ e.msg.data1 \in 32 .. 63

\* Between calls i and j (exclusive) the pending MSB of channel c was replaced or reset.
CCDisturbed(c, i, j) ==
    \E k \in (i + 1) .. (j - 1) : cc_log[k].op = "reset" \/ IsMsbOn(cc_log[k], c)

\* Call i fed an MSB on c, call j > i fed its paired LSB, with the MSB still pending.
CCPair(c, i, j) ==
    /\ i < j
    /\ IsMsbOn(cc_log[i], c)
    /\ IsCCOn(cc_log[j], c)
    /\ cc_log[j].msg.data1 = cc_log[i].msg.data1 + 32
    /\ ~CCDisturbed(c, i, j)

\* C1: on one channel, an MSB (controller n in 0..31, value v1) returns nothing, and
\* the next control-change on controller n+32 (value v2) with no other MSB-range
\* control-change on that channel (and no reset) in between returns the message
\* (channel, msb n, lsb n+32, value v1*128 + v2).
C1_MsbThenLsbCompletes ==
    \A c \in ChannelSamples : \A i \in CCIdx : \A j \in CCIdx :
        CCPair(c, i, j) =>
            /\ cc_log[i].ret = None
            /\ IsSome(cc_log[j].ret)
            /\ Unwrap(cc_log[j].ret).channel = c
            /\ Unwrap(cc_log[j].ret).msb_controller_number = cc_log[i].msg.data1
            /\ get_lsb_controller_number(Unwrap(cc_log[j].ret)) = cc_log[i].msg.data1 + 32
            /\ Unwrap(cc_log[j].ret).value
                   = (cc_log[i].msg.data2 * 128) + cc_log[j].msg.data2

C1_Witness ==
    \E c \in ChannelSamples : \E i \in CCIdx : \E j \in CCIdx :
        /\ CCPair(c, i, j)
        /\ cc_log[i].msg.data2 # cc_log[j].msg.data2
        /\ IsSome(cc_log[j].ret)

\* Call j completed a sequence on channel c.
CCCompleted(c, j) == IsCCOn(cc_log[j], c) /\ IsSome(cc_log[j].ret)

\* C2 (as claimed): a completion clears the channel's pending state, so the channel is
\* empty afterwards and a further LSB with no new MSB in between returns nothing.
C2_CompletionClearsPending ==
    \A c \in ChannelSamples : \A j \in CCIdx :
        CCCompleted(c, j) =>
            /\ CCStateAfter(j)[c] = ParserForOneChannel_new
            /\ \A k \in CCIdx :
                   (j < k /\ IsLsbOn(cc_log[k], c) /\ ~CCDisturbed(c, j, k))
                       => cc_log[k].ret = None

\* C2 (amended): a completion leaves the channel's pending MSB controller and value as
\* they were, so a further LSB on the paired controller with no new MSB and no reset in
\* between completes again with the same MSB value, and one on any other LSB controller
\* returns nothing.
C2_CompletionKeepsPending ==
    \A c \in ChannelSamples : \A j \in CCIdx :
        CCCompleted(c, j) =>
            LET m == Unwrap(cc_log[j].ret)
                kept == CCStateAfter(j)[c]
            IN  /\ kept = cc_log[j].pre[c]
                /\ kept.msb_controller_number = Some(m.msb_controller_number)
                /\ IsSome(kept.value_msb)
                /\ m.value = (Unwrap(kept.value_msb) * 128) + cc_log[j].msg.data2
                /\ \A k \in CCIdx :
                       (j < k /\ IsLsbOn(cc_log[k], c) /\ ~CCDisturbed(c, j, k)) =>
                           IF cc_log[k].msg.data1 = m.msb_controller_number + 32
                           THEN cc_log[k].ret =
                                    Some(Midi14BitControlChangeMessage_new(
                                             c, m.msb_controller_number,
                                             (Unwrap(kept.value_msb) * 128)
                                                 + cc_log[k].msg.data2))
                           ELSE cc_log[k].ret = None

C2_Witness ==
    \E c \in ChannelSamples : \E j \in CCIdx : \E k \in CCIdx :
        /\ j < k
        /\ CCCompleted(c, j)
        /\ CCCompleted(c, k)
        /\ ~CCDisturbed(c, j, k)
        /\ cc_log[j].msg.data2 # cc_log[k].msg.data2

\* Call m fed, with an MSB pending on channel c, an LSB-range controller that is not
\* the pending controller's partner.
CCMismatch(c, m) ==
    /\ IsLsbOn(cc_log[m], c)
    /\ IsSome(cc_log[m].pre[c].msb_controller_number)
    /\ cc_log[m].msg.data1 # Unwrap(cc_log[m].pre[c].msb_controller_number) + 32

\* C3: with an MSB pending on controller n, an LSB-range control-change whose
\* controller is not n+32 returns nothing and leaves the pending controller and value
\* unchanged, so a later control-change on n+32 completes with the original MSB value.
C3_MismatchedLsbKeepsPending ==
    \A c \in ChannelSamples : \A m \in CCIdx :
        CCMismatch(c, m) =>
            /\ cc_log[m].ret = None
            /\ CCStateAfter(m)[c] = cc_log[m].pre[c]
            /\ \A i \in CCIdx : \A j \in CCIdx :
                   (i < m /\ m < j /\ CCPair(c, i, j)) =>
                       cc_log[j].ret =
                           Some(Midi14BitControlChangeMessage_new(
                                    c, cc_log[i].msg.data1,
                                    (cc_log[i].msg.data2 * 128) + cc_log[j].msg.data2))

C3_Witness ==
    \E c \in ChannelSamples : \E i \in CCIdx : \E m \in CCIdx : \E j \in CCIdx :
        /\ i < m /\ m < j
        /\ CCMismatch(c, m)
        /\ CCPair(c, i, j)
        /\ IsSome(cc_log[j].ret)

\* C4: every MSB-range control-change overwrites the channel's pending controller and
\* value; a completion uses the controller and value of the most recent MSB fed on the
\* channel before the LSB, and an LSB paired with a superseded MSB returns nothing.
C4_LastMsbWins ==
    \A c \in ChannelSamples : \A i \in CCIdx :
        IsMsbOn(cc_log[i], c) =>
            /\ CCStateAfter(i)[c] =
                   [msb_controller_number |-> Some(cc_log[i].msg.data1),
                    value_msb |-> Some(cc_log[i].msg.data2)]
            /\ \A j \in CCIdx :
                   (i < j /\ IsLsbOn(cc_log[j], c) /\ ~CCDisturbed(c, i, j)) =>
                       /\ IsSome(cc_log[j].ret) =>
                              /\ Unwrap(cc_log[j].ret).msb_controller_number
                                     = cc_log[i].msg.data1
                              /\ Unwrap(cc_log[j].ret).value
                                     = (cc_log[i].msg.data2 * 128) + cc_log[j].msg.data2
                       /\ \A h \in CCIdx :
                              ( /\ h < i
                                /\ IsMsbOn(cc_log[h], c)
                                /\ cc_log[h].msg.data1 # cc_log[i].msg.data1
                                /\ cc_log[j].msg.data1 = cc_log[h].msg.data1 + 32 )
                                  => cc_log[j].ret = None

C4_Witness ==
    \E c \in ChannelSamples : \E h \in CCIdx : \E i \in CCIdx : \E j \in CCIdx :
        /\ h < i /\ i < j
        /\ IsMsbOn(cc_log[h], c)
        /\ IsMsbOn(cc_log[i], c)
        /\ cc_log[h].msg.data1 # cc_log[i].msg.data1
        /\ cc_log[h].msg.data2 # cc_log[i].msg.data2
        /\ IsSome(cc_log[j].ret)
        /\ IsCCOn(cc_log[j], c)

(***************************************************************************)
(* Reading the log of the parameter-number scanner.                        *)
(***************************************************************************)
PNIdx == 1 .. Len(pn_log)

PNStateAfter(i) == IF i = Len(pn_log) THEN scanner_by_channel ELSE pn_log[i + 1].pre

\* Call i fed a control-change on channel c with controller n.
PNFed(i, c, n) ==
    /\ i \in PNIdx
    /\ pn_log[i].op = "feed"
    /\ pn_log[i].msg.kind = "ControlChange"
    /\ pn_log[i].msg.channel = Some(c)
    /\ pn_log[i].msg.data1 = n

\* Calls k, k+1 fed the number MSB and LSB of one controller pair on channel c, which
\* was fresh before call k.
PNNumberOnFresh(k, c, registered) ==
    /\ pn_log[k].pre[c] = ScannerForOneChannel_default
    /\ PNFed(k, c, IF registered THEN 101 ELSE 99)
    /\ PNFed(k + 1, c, IF registered THEN 100 ELSE 98)

\* C6: on a fresh channel, number MSB (a), number LSB (b), controller 38 (l), then
\* controller 6 (m) return nothing three times and then the 14-bit message with
\* number a*128 + b, value m*128 + l, registered exactly for the pair 101/100.
C6_FourMessages14Bit ==
    \A c \in PNChannelSamples : \A k \in PNIdx : \A registered \in BOOLEAN :
        (PNNumberOnFresh(k, c, registered) /\ PNFed(k + 2, c, 38) /\ PNFed(k + 3, c, 6))
            => /\ pn_log[k].ret = None
               /\ pn_log[k + 1].ret = None
               /\ pn_log[k + 2].ret = None
               /\ pn_log[k + 3].ret =
                      Some([channel |-> c,
                            number |-> (pn_log[k].msg.data2 * 128) + pn_log[k + 1].msg.data2,
                            value |-> (pn_log[k + 3].msg.data2 * 128)
                                          + pn_log[k + 2].msg.data2,
                            is_registered |-> registered,
                            is_14_bit |-> TRUE])

C6_Witness ==
    \E c \in PNChannelSamples : \E k \in PNIdx :
        /\ PNNumberOnFresh(k, c, TRUE)
        /\ PNFed(k + 2, c, 38)
        /\ PNFed(k + 3, c, 6)
        /\ pn_log[k].msg.data2 # pn_log[k + 1].msg.data2
        /\ pn_log[k + 2].msg.data2 # pn_log[k + 3].msg.data2
        /\ IsSome(pn_log[k + 3].ret)

\* C7: on a fresh channel, number MSB (a), number LSB (b), then controller 6 (m) with
\* no controller 38 return nothing twice and then the 7-bit message with number
\* a*128 + b, value m, registered exactly for the pair 101/100.
C7_ThreeMessages7Bit ==
    \A c \in PNChannelSamples : \A k \in PNIdx : \A registered \in BOOLEAN :
        (PNNumberOnFresh(k, c, registered) /\ PNFed(k + 2, c, 6))
            => /\ pn_log[k].ret = None
               /\ pn_log[k + 1].ret = None
               /\ pn_log[k + 2].ret =
                      Some([channel |-> c,
                            number |-> (pn_log[k].msg.data2 * 128) + pn_log[k + 1].msg.data2,
                            value |-> pn_log[k + 2].msg.data2,
                            is_registered |-> registered,
                            is_14_bit |-> FALSE])

C7_Witness ==
    \E c \in PNChannelSamples : \E k \in PNIdx :
        /\ PNNumberOnFresh(k, c, FALSE)
        /\ PNFed(k + 2, c, 6)
        /\ pn_log[k].msg.data2 # pn_log[k + 1].msg.data2
        /\ IsSome(pn_log[k + 2].ret)

(***************************************************************************)
(* Reading the round trip.                                                 *)
(***************************************************************************)
RTEncoded == IsSome(rt_msg) /\ IsSome(rt_short_messages)

\* Number of slots of the encoder's output that hold a message.
RTPopulated == Cardinality({k \in 0 .. 3 : IsSome(Unwrap(rt_short_messages)[k])})

\* C8: the scanner takes 99 (number MSB) and 98 (number LSB) for the non-registered
\* pair and 101 (number MSB) and 100 (number LSB) for the registered pair, and the
\* encoder emits the two number halves on exactly these controllers for the same
\* is_registered flag: fed the encoder's first slot the scanner holds the number MSB,
\* fed the second it holds the number LSB, each time with the message's flag.
C8_ControllerRoles ==
    RTEncoded =>
        LET m == Unwrap(rt_msg)
            slots == Unwrap(rt_short_messages)
            state == scanner_by_channel[m.channel]
        IN  /\ IsSome(slots[0]) /\ IsSome(slots[1])
            /\ Unwrap(slots[0]).kind = "ControlChange"
            /\ Unwrap(slots[1]).kind = "ControlChange"
            /\ Unwrap(slots[0]).data1 = (IF m.is_registered THEN 101 ELSE 99)
            /\ Unwrap(slots[1]).data1 = (IF m.is_registered THEN 100 ELSE 98)
            /\ rt_fed = 1 =>
                   /\ state.number_msb = Some(Unwrap(slots[0]).data2)
                   /\ state.number_lsb = None
                   /\ state.is_registered = m.is_registered
            /\ rt_fed >= 2 =>
                   /\ state.number_msb = Some(Unwrap(slots[0]).data2)
                   /\ state.number_lsb = Some(Unwrap(slots[1]).data2)
                   /\ state.is_registered = m.is_registered

C8_Witness ==
    /\ RTEncoded
    /\ rt_fed = 2
    /\ Unwrap(rt_msg).is_registered
    /\ Unwrap(Unwrap(rt_short_messages)[0]).data2
           # Unwrap(Unwrap(rt_short_messages)[1]).data2

\* C9: fed in order to a new scanner, the non-empty messages of the encoder's output
\* return nothing for every message but the last and, on the last, a message equal to
\* the original in channel, number, value, is_registered and is_14_bit.
C9_RoundTrip ==
    RTEncoded =>
        /\ \A k \in 1 .. Len(rt_rets) :
               rt_rets[k] = (IF k = RTPopulated THEN rt_msg ELSE None)
        /\ rt_fed = 4 => Len(rt_rets) = RTPopulated

C9_Witness ==
    /\ RTEncoded
    /\ rt_fed = 4
    /\ Len(rt_rets) = 4
    /\ rt_rets[4] = rt_msg
    /\ ~Unwrap(rt_msg).is_registered
    /\ Unwrap(rt_msg).number = 420
    /\ Unwrap(rt_msg).value = 15000

\* C10: a 14-bit message is encoded as four populated slots, in the order number MSB,
\* number LSB, value LSB (controller 38, low 7 bits of the value), value MSB
\* (controller 6, high 7 bits of the value); a 7-bit message as number MSB, number
\* LSB, value MSB (controller 6, the raw 7-bit value) and an empty 4th slot.
C10_SlotLayout ==
    RTEncoded =>
        LET m == Unwrap(rt_msg)
            slots == Unwrap(rt_short_messages)
            msb_controller == IF m.is_registered THEN 101 ELSE 99
            lsb_controller == IF m.is_registered THEN 100 ELSE 98
        IN  /\ DOMAIN slots = 0 .. 3
            /\ slots[0] = Some(control_change(m.channel, msb_controller, m.number \div 128))
            /\ slots[1] = Some(control_change(m.channel, lsb_controller, m.number % 128))
            /\ m.is_14_bit =>
                   /\ slots[2] = Some(control_change(m.channel, 38, m.value % 128))
                   /\ slots[3] = Some(control_change(m.channel, 6, m.value \div 128))
            /\ ~m.is_14_bit =>
                   /\ slots[2] = Some(control_change(m.channel, 6, m.value))
                   /\ slots[3] = None

C10_Witness ==
    /\ RTEncoded
    /\ ~Unwrap(rt_msg).is_14_bit
    /\ Unwrap(rt_short_messages)[3] = None
    /\ IsSome(Unwrap(rt_short_messages)[2])

(***************************************************************************)
(* Reading the isolation run.                                              *)
(***************************************************************************)
\* The per-channel array of the scanner the behaviour drives.
IsoShared == IF iso_which = "cc" THEN parser_by_channel ELSE scanner_by_channel

\* C5: for both scanners, whatever the interleaving across channels, every feed
\* returns what it returns when its channel's messages are fed alone to a new scanner
\* (so each channel's completed messages, in order, are the same), each channel's
\* state is the state it has when fed alone, and a feed on a channel changes the state
\* of no other channel.
C5_ChannelIsolation ==
    /\ \A c \in ChannelSamples :
           /\ parser_by_channel[c] = solo_parser[c][c]
           /\ scanner_by_channel[c] = solo_scanner[c][c]
    /\ IsSome(iso_last) =>
           LET l == Unwrap(iso_last)
           IN  /\ l.ret = l.solo_ret
               /\ \A d \in Channels :
                      l.msg.channel # Some(d) => IsoShared[d] = l.pre[d]

\* A parameter-number completion on one channel while the other channel has taken a
\* number half of its own and has not completed.
C5_Witness ==
    /\ iso_which = "pn"
    /\ IsSome(iso_last)
    /\ IsSome(Unwrap(iso_last).ret)
    /\ \E d \in ChannelSamples :
           /\ Unwrap(iso_last).msg.channel # Some(d)
           /\ IsSome(scanner_by_channel[d].number_msb)
           /\ IsSome(scanner_by_channel[d].value_lsb)
           /\ ~IsSome(scanner_by_channel[d].number_lsb)

\* C11 (as claimed): the output has 4 slots and, for a 7-bit message, the 3rd slot is
\* empty and the value MSB on controller 6 is in the 4th slot.
C11_ThirdSlotEmpty ==
    RTEncoded =>
        LET m == Unwrap(rt_msg)
            slots == Unwrap(rt_short_messages)
        IN  /\ DOMAIN slots = 0 .. 3
            /\ ~m.is_14_bit =>
                   /\ slots[2] = None
                   /\ slots[3] = Some(control_change(m.channel, 6, m.value))

\* C11 (amended): the output has 4 slots and, for a 7-bit message, the 4th slot is
\* empty: the value MSB on controller 6 is in the 3rd slot, and no slot holds a
\* value-LSB message (controller 38).
C11_FourthSlotEmpty ==
    RTEncoded =>
        LET m == Unwrap(rt_msg)
            slots == Unwrap(rt_short_messages)
        IN  /\ DOMAIN slots = 0 .. 3
            /\ ~m.is_14_bit =>
                   /\ slots[3] = None
                   /\ slots[2] = Some(control_change(m.channel, 6, m.value))
                   /\ \A k \in 0 .. 3 :
                          IsSome(slots[k]) => Unwrap(slots[k]).data1 # 38

C11_Witness ==
    /\ RTEncoded
    /\ ~Unwrap(rt_msg).is_14_bit
    /\ Unwrap(rt_msg).is_registered
    /\ Unwrap(rt_msg).value = 126
    /\ Unwrap(rt_short_messages)[3] = None

(***************************************************************************)
(* Reading both call logs.                                                 *)
(***************************************************************************)
\* A reset call lies strictly between calls i and j.
PNReset_between(i, j) == \E k \in (i + 1) .. (j - 1) : pn_log[k].op = "reset"
CCReset_between(i, j) == \E k \in (i + 1) .. (j - 1) : cc_log[k].op = "reset"

\* Call j, after call i, fed controller n on channel c with payload v and no reset
\* lies between i and j.
PNFedSince(i, j, c, n, v) ==
    /\ i < j
    /\ PNFed(j, c, n)
    /\ pn_log[j].msg.data2 = v
    /\ ~PNReset_between(i, j)

\* C12: reset() on either scanner, in any reachable state, leaves all 16 channel
\* states as in a new scanner; a lone completing message right after it (an LSB for
\* the wide-value scanner, controller 6 for the parameter-number scanner) returns
\* nothing, and every message returned after it is built only from payloads fed
\* after it.
C12_ResetIsNew ==
    /\ \A i \in CCIdx :
           cc_log[i].op = "reset" =>
               /\ CCStateAfter(i) = Parser_new
               /\ (i + 1 \in CCIdx /\ \E c \in ChannelSamples : IsLsbOn(cc_log[i + 1], c))
                      => cc_log[i + 1].ret = None
               /\ \A k \in CCIdx :
                      (i < k /\ IsSome(cc_log[k].ret) /\ ~CCReset_between(i, k)) =>
                          \E j \in (i + 1) .. (k - 1) :
                              /\ IsMsbOn(cc_log[j], Unwrap(cc_log[k].ret).channel)
                              /\ Unwrap(cc_log[k].ret) =
                                     Midi14BitControlChangeMessage_new(
                                         Unwrap(cc_log[k].msg.channel),
                                         cc_log[j].msg.data1,
                                         (cc_log[j].msg.data2 * 128) + cc_log[k].msg.data2)
    /\ \A i \in PNIdx :
           pn_log[i].op = "reset" =>
               /\ PNStateAfter(i) = Scanner_new
               /\ (\E c \in PNChannelSamples : PNFed(i + 1, c, 6))
                      => pn_log[i + 1].ret = None
               /\ \A k \in PNIdx :
                      (i < k /\ IsSome(pn_log[k].ret) /\ ~PNReset_between(i, k)) =>
                          LET m == Unwrap(pn_log[k].ret)
                          IN  /\ \E j \in (i + 1) .. (k - 1) :
                                     \/ PNFedSince(i, j, m.channel, 99, m.number \div 128)
                                     \/ PNFedSince(i, j, m.channel, 101, m.number \div 128)
                              /\ \E j \in (i + 1) .. (k - 1) :
                                     \/ PNFedSince(i, j, m.channel, 98, m.number % 128)
                                     \/ PNFedSince(i, j, m.channel, 100, m.number % 128)
                              /\ m.is_14_bit =>
                                     \E j \in (i + 1) .. (k - 1) :
                                         PNFedSince(i, j, m.channel, 38, m.value % 128)

\* Both number halves are pending on a channel, reset() is called, and the
\* controller-6 message fed next on that channel returns nothing.
C12_Witness ==
    \E c \in PNChannelSamples : \E i \in PNIdx :
        /\ pn_log[i].op = "reset"
        /\ IsSome(pn_log[i].pre[c].number_msb)
        /\ IsSome(pn_log[i].pre[c].number_lsb)
        /\ PNFed(i + 1, c, 6)
        /\ pn_log[i + 1].ret = None

\* C13: every ParameterNumberMessage with is_14_bit = false has value <= 127: the
\* ones the 7-bit constructors build (an integer above 127 is no U7, so no message is
\* built from it) and every one the scanner returns, after any sequence of feeds and
\* after the encoder's output.
C13_SevenBitValueRange ==
    /\ (IsSome(rt_msg) /\ ~Unwrap(rt_msg).is_14_bit) => Unwrap(rt_msg).value \in 0 .. 127
    /\ \A k \in 1 .. Len(rt_rets) :
           (IsSome(rt_rets[k]) /\ ~Unwrap(rt_rets[k]).is_14_bit)
               => Unwrap(rt_rets[k]).value \in 0 .. 127
    /\ \A i \in PNIdx :
           (IsSome(pn_log[i].ret) /\ ~Unwrap(pn_log[i].ret).is_14_bit)
               => Unwrap(pn_log[i].ret).value \in 0 .. 127

\* The scanner returns a 7-bit message carrying the largest 7-bit value, on a channel
\* that had taken a controller-38 payload before its last number half.
C13_Witness ==
    \E c \in PNChannelSamples : \E i \in PNIdx : \E h \in PNIdx :
        /\ h < i
        /\ PNFed(h, c, 38)
        /\ PNFed(i, c, 6)
        /\ IsSome(pn_log[i].ret)
        /\ ~Unwrap(pn_log[i].ret).is_14_bit
        /\ Unwrap(pn_log[i].ret).value = 127

\* A logged call that fed a message neither scanner can use: one without a channel or
\* one that is no control-change.
NoControlChange(e) ==
    e.op = "feed" /\ (~IsSome(e.msg.channel) \/ e.msg.kind # "ControlChange")

\* A logged call that fed the wide-value scanner a message outside its protocol.
CCIrrelevant(e) ==
    \/ NoControlChange(e)
    \/ e.op = "feed" /\ e.msg.data1 \notin 0 .. 63

\* A logged call that fed the parameter-number scanner a message outside its protocol.
PNIrrelevant(e) ==
    \/ NoControlChange(e)
    \/ e.op = "feed" /\ e.msg.data1 \notin {6, 38, 98, 99, 100, 101}

\* C14: for both scanners, a message without a channel, a message that is no
\* control-change, and a control-change on a controller outside the protocol set
\* (outside 0..63 for the wide-value scanner; none of 6, 38, 98, 99, 100, 101 for the
\* parameter-number scanner) returns nothing and leaves all 16 channel states as they
\* were, so whatever is fed later returns what it would have returned without it.
C14_IrrelevantIsNoOp ==
    /\ \A i \in CCIdx :
           CCIrrelevant(cc_log[i]) =>
               /\ cc_log[i].ret = None
               /\ CCStateAfter(i) = cc_log[i].pre
    /\ \A i \in PNIdx :
           PNIrrelevant(pn_log[i]) =>
               /\ pn_log[i].ret = None
               /\ PNStateAfter(i) = pn_log[i].pre

\* An MSB, then a control-change outside 0..63 on the same channel, then the paired
\* LSB, which completes.
C14_Witness ==
    \E c \in ChannelSamples : \E i \in CCIdx :
        /\ IsMsbOn(cc_log[i], c)
        /\ i + 2 \in CCIdx
        /\ IsCCOn(cc_log[i + 1], c)
        /\ CCIrrelevant(cc_log[i + 1])
        /\ IsLsbOn(cc_log[i + 2], c)
        /\ IsSome(cc_log[i + 2].ret)

\* C15: no feed of either scanner aborts, whatever the state and the message: it
\* returns nothing or a message; the wide-value scanner reaches the unwrap of the
\* pending controller's LSB partner only with a pending controller in 0..31, where
\* the partner exists.
C15_FeedNeverAborts ==
    /\ \A i \in CCIdx :
           /\ ~cc_log[i].panicked
           /\ \A c \in ChannelSamples :
                  ( /\ IsLsbOn(cc_log[i], c)
                    /\ IsSome(cc_log[i].pre[c].msb_controller_number)
                    /\ IsSome(cc_log[i].pre[c].value_msb) )
                      => /\ Unwrap(cc_log[i].pre[c].msb_controller_number) \in 0 .. 31
                         /\ IsSome(get_corresponding_14_bit_lsb(
                                       Unwrap(cc_log[i].pre[c].msb_controller_number)))
    /\ \A i \in PNIdx : ~pn_log[i].panicked

\* The unwrap is reached with the last controller of the MSB range pending, once for a
\* mismatched LSB and once for the paired one.
C15_Witness ==
    \E c \in ChannelSamples : \E i \in CCIdx : \E j \in CCIdx :
        /\ i < j
        /\ IsLsbOn(cc_log[i], c)
        /\ cc_log[i].pre[c].msb_controller_number = Some(31)
        /\ cc_log[i].ret = None
        /\ IsLsbOn(cc_log[j], c)
        /\ IsSome(cc_log[j].ret)

\* Call i fed a number half (controller 98, 99, 100 or 101) on channel c.
PNNumberHalf(i, c) == \E n \in {98, 99, 100, 101} : PNFed(i, c, n)

\* C16: every number-half message (controller 98, 99, 100 or 101) leaves the channel's
\* value_lsb absent, so in the sequence 38, number half, 6 with both number halves
\* present at the end, controller 6 returns a 7-bit message whose value is its own
\* payload: the controller-38 value fed before the number half is not used.
C16_NumberHalfClearsValueLsb ==
    \A c \in PNChannelSamples : \A i \in PNIdx :
        /\ PNNumberHalf(i, c) => PNStateAfter(i)[c].value_lsb = None
        /\ ( /\ PNFed(i, c, 38)
             /\ PNNumberHalf(i + 1, c)
             /\ PNFed(i + 2, c, 6)
             /\ IsSome(pn_log[i + 2].pre[c].number_msb)
             /\ IsSome(pn_log[i + 2].pre[c].number_lsb) )
               => /\ IsSome(pn_log[i + 2].ret)
                  /\ ~Unwrap(pn_log[i + 2].ret).is_14_bit
                  /\ Unwrap(pn_log[i + 2].ret).value = pn_log[i + 2].msg.data2

\* One number half, controller 38 with a payload other than the later controller-6
\* payload, the other number half, controller 6: a message comes out.
C16_Witness ==
    \E c \in PNChannelSamples : \E i \in PNIdx :
        /\ PNNumberHalf(i, c)
        /\ PNFed(i + 1, c, 38)
        /\ PNNumberHalf(i + 2, c)
        /\ IsSome(pn_log[i + 2].pre[c].value_lsb)
        /\ PNFed(i + 3, c, 6)
        /\ pn_log[i + 1].msg.data2 # pn_log[i + 3].msg.data2
        /\ IsSome(pn_log[i + 3].ret)

\* C17: controller 6 fed while number_msb or number_lsb is absent on that channel
\* returns nothing and leaves the four state fields of the channel (and every other
\* channel) unchanged.
C17_ValueMsbWithoutNumber ==
    \A c \in PNChannelSamples : \A i \in PNIdx :
        ( /\ PNFed(i, c, 6)
          /\ \/ ~IsSome(pn_log[i].pre[c].number_msb)
             \/ ~IsSome(pn_log[i].pre[c].number_lsb) )
            => /\ pn_log[i].ret = None
               /\ PNStateAfter(i) = pn_log[i].pre

\* Controller 6 arrives with one registered number half and a value LSB held, the
\* other number half missing.
C17_Witness ==
    \E c \in PNChannelSamples : \E i \in PNIdx :
        /\ PNFed(i, c, 6)
        /\ IsSome(pn_log[i].pre[c].number_msb) # IsSome(pn_log[i].pre[c].number_lsb)
        /\ IsSome(pn_log[i].pre[c].value_lsb)
        /\ pn_log[i].pre[c].is_registered
        /\ pn_log[i].ret = None

\* C18: a feed that returns a message leaves number_msb, number_lsb and is_registered
\* as they were; a later controller 6 on the same channel, with no number half and no
\* reset since, returns a message again, with the same number and is_registered.
C18_NumberSurvivesEmission ==
    \A c \in PNChannelSamples : \A i \in PNIdx :
        (PNFed(i, c, 6) /\ IsSome(pn_log[i].ret)) =>
            /\ PNStateAfter(i)[c].number_msb = pn_log[i].pre[c].number_msb
            /\ PNStateAfter(i)[c].number_lsb = pn_log[i].pre[c].number_lsb
            /\ PNStateAfter(i)[c].is_registered = pn_log[i].pre[c].is_registered
            /\ \A j \in PNIdx :
                   ( /\ i < j
                     /\ PNFed(j, c, 6)
                     /\ ~PNReset_between(i, j)
                     /\ \A k \in PNIdx : (i < k /\ k < j) => ~PNNumberHalf(k, c) )
                       => /\ IsSome(pn_log[j].ret)
                          /\ Unwrap(pn_log[j].ret).number = Unwrap(pn_log[i].ret).number
                          /\ Unwrap(pn_log[j].ret).is_registered
                                 = Unwrap(pn_log[i].ret).is_registered

\* Both number halves, controller 6, controller 6 again with another payload: two
\* messages for one number.
C18_Witness ==
    \E c \in PNChannelSamples : \E i \in PNIdx :
        /\ PNFed(i, c, 6)
        /\ PNFed(i + 1, c, 6)
        /\ IsSome(pn_log[i].ret)
        /\ IsSome(pn_log[i + 1].ret)
        /\ Unwrap(pn_log[i].ret).value # Unwrap(pn_log[i + 1].ret).value
        /\ Unwrap(pn_log[i].ret).number # 0

\* C19: feed of the wide-value scanner returns a message only when the fed message is
\* a control-change with controller k in 32..63 on a channel whose pending MSB has
\* controller k - 32; an LSB fed with no MSB pending returns nothing and leaves the
\* state unchanged.
C19_EmitsOnlyOnCompleteSequence ==
    \A i \in CCIdx :
        /\ IsSome(cc_log[i].ret) =>
               \E c \in Channels :
                   /\ IsLsbOn(cc_log[i], c)
                   /\ cc_log[i].pre[c].msb_controller_number
                          = Some(cc_log[i].msg.data1 - 32)
                   /\ IsSome(cc_log[i].pre[c].value_msb)
        /\ \A c \in Channels :
               ( /\ IsLsbOn(cc_log[i], c)
                 /\ ~IsSome(cc_log[i].pre[c].msb_controller_number) )
                   => /\ cc_log[i].ret = None
                      /\ CCStateAfter(i) = cc_log[i].pre

\* An LSB with nothing pending returns nothing; the same LSB, fed again after its MSB,
\* returns a message.
C19_Witness ==
    \E c \in ChannelSamples : \E i \in CCIdx : \E j \in CCIdx :
        /\ i < j
        /\ IsLsbOn(cc_log[i], c)
        /\ ~IsSome(cc_log[i].pre[c].msb_controller_number)
        /\ cc_log[i].ret = None
        /\ cc_log[j].msg = cc_log[i].msg
        /\ IsSome(cc_log[j].ret)

\* C20: in every reachable state of the wide-value scanner and for every channel, the
\* pending MSB controller and the pending MSB value are both present or both absent,
\* and a present pending controller lies in 0..31.
C20_PendingPairInvariant ==
    \A c \in Channels :
        /\ IsSome(parser_by_channel[c].msb_controller_number)
               = IsSome(parser_by_channel[c].value_msb)
        /\ IsSome(parser_by_channel[c].msb_controller_number)
               => Unwrap(parser_by_channel[c].msb_controller_number) \in 0 .. 31

\* After a reset, one channel holds a pending MSB on the last controller of the range
\* while another channel holds nothing.
C20_Witness ==
    \E c \in ChannelSamples : \E d \in ChannelSamples : \E i \in CCIdx :
        /\ cc_log[i].op = "reset"
        /\ IsSome(cc_log[i].pre[c].msb_controller_number)
        /\ parser_by_channel[c].msb_controller_number = Some(31)
        /\ IsSome(parser_by_channel[c].value_msb)
        /\ parser_by_channel[d] = ParserForOneChannel_new

\* Call k is the most recent number half fed on channel c before call i, with no
\* reset since.
PNLastNumberHalf(k, i, c) ==
    /\ k < i
    /\ PNNumberHalf(k, c)
    /\ ~PNReset_between(k, i)
    /\ \A h \in PNIdx : (k < h /\ h < i) => ~PNNumberHalf(h, c)

\* C21: the is_registered flag of every returned message equals the kind (registered
\* for 100/101, non-registered for 98/99) of the most recent number half fed on that
\* channel, also when the two stored halves came from different pairs: 101 (a), 98 (b),
\* 6 (m) returns the non-registered 7-bit message with number a*128 + b and value m.
C21_KindOfLastNumberHalf ==
    \A c \in PNChannelSamples : \A i \in PNIdx :
        /\ (PNFed(i, c, 6) /\ IsSome(pn_log[i].ret)) =>
               /\ \E k \in PNIdx : PNLastNumberHalf(k, i, c)
               /\ \A k \in PNIdx :
                      PNLastNumberHalf(k, i, c) =>
                          Unwrap(pn_log[i].ret).is_registered
                              = (pn_log[k].msg.data1 \in {100, 101})
        /\ (PNFed(i, c, 101) /\ PNFed(i + 1, c, 98) /\ PNFed(i + 2, c, 6)) =>
               pn_log[i + 2].ret =
                   Some([channel |-> c,
                         number |-> (pn_log[i].msg.data2 * 128) + pn_log[i + 1].msg.data2,
                         value |-> pn_log[i + 2].msg.data2,
                         is_registered |-> FALSE,
                         is_14_bit |-> FALSE])

\* A registered number MSB, a non-registered number LSB with another payload, then
\* controller 6: a message comes out.
C21_Witness ==
    \E c \in PNChannelSamples : \E i \in PNIdx :
        /\ PNFed(i, c, 101)
        /\ PNFed(i + 1, c, 98)
        /\ PNFed(i + 2, c, 6)
        /\ pn_log[i].msg.data2 # pn_log[i + 1].msg.data2
        /\ IsSome(pn_log[i + 2].ret)

\* Nothing that touches the value or number progress of channel c, and no reset, lies
\* strictly between calls i and j.
PNQuietBetween(i, j, c) ==
    /\ ~PNReset_between(i, j)
    /\ \A k \in PNIdx :
           (i < k /\ k < j) => (~PNNumberHalf(k, c) /\ ~PNFed(k, c, 38))

\* C22: a controller-6 feed never changes the scanner's state, whether or not it
\* returns a message; value_lsb survives, so after a 14-bit message a later controller
\* 6 (no controller 38, no number half, no reset since) returns another 14-bit message
\* for the same number whose low 7 bits are the earlier controller-38 payload.
C22_ValueMsbFeedKeepsState ==
    \A c \in PNChannelSamples : \A i \in PNIdx :
        PNFed(i, c, 6) =>
            /\ PNStateAfter(i) = pn_log[i].pre
            /\ (IsSome(pn_log[i].ret) /\ Unwrap(pn_log[i].ret).is_14_bit) =>
                   \A j \in PNIdx :
                       (i < j /\ PNFed(j, c, 6) /\ PNQuietBetween(i, j, c)) =>
                           pn_log[j].ret =
                               Some([Unwrap(pn_log[i].ret) EXCEPT
                                        !.value = (pn_log[j].msg.data2 * 128)
                                                      + Unwrap(pn_log[i].pre[c].value_lsb)])

\* Two controller-6 feeds with different payloads, another message between them, both
\* returning a 14-bit message.
C22_Witness ==
    \E c \in PNChannelSamples : \E i \in PNIdx :
        /\ PNFed(i, c, 6)
        /\ PNFed(i + 2, c, 6)
        /\ PNQuietBetween(i, i + 2, c)
        /\ pn_log[i].msg.data2 # pn_log[i + 2].msg.data2
        /\ IsSome(pn_log[i].ret)
        /\ Unwrap(pn_log[i].ret).is_14_bit
        /\ IsSome(pn_log[i + 2].ret)
        /\ Unwrap(pn_log[i + 2].ret).is_14_bit

\* C23: whatever state the parameter-number scanner is in when a constructed message
\* is encoded, feeding the encoder's output in order, with no other message on that
\* channel in between, returns nothing on every feed before the last and a message
\* equal to the original on the last.
C23_RoundTripFromAnyState ==
    (IsSome(rt_start) /\ IsSome(rt_msg)) =>
        /\ Len(rt_rets) <= RTPopulated
        /\ \A k \in 1 .. Len(rt_rets) :
               /\ k < RTPopulated => rt_rets[k] = None
               /\ k = RTPopulated => rt_rets[k] = Some(Unwrap(rt_msg))
        /\ rt_fed = 4 =>
               /\ Len(rt_rets) = RTPopulated
               /\ rt_rets[Len(rt_rets)] = rt_msg

\* A 7-bit non-registered message has gone round through a channel that held a
\* registered number and a value LSB when it was encoded.
C23_Witness ==
    /\ IsSome(rt_start)
    /\ IsSome(rt_msg)
    /\ rt_fed = 4
    /\ ~Unwrap(rt_msg).is_14_bit
    /\ ~Unwrap(rt_msg).is_registered
    /\ LET before == Unwrap(rt_start)[Unwrap(rt_msg).channel]
       IN  /\ IsSome(before.number_msb)
           /\ IsSome(before.number_lsb)
           /\ IsSome(before.value_lsb)
           /\ before.is_registered
    /\ Len(rt_rets) = 3
    /\ rt_rets[3] = rt_msg

====
